---- MODULE Spec2Model ----
(***************************************************************************)
(* Model of python-script.py: FileExtractor.extract_content, the format    *)
(* handlers, FileExtractor.encrypt_folder, generate_password and main.     *)
(*                                                                         *)
(* Strings that the program inspects character by character (suffixes,     *)
(* passwords) are sequences of character codes.  A path below the output   *)
(* folder is a record [dir, name, slide, idx, ext]; the bytes of a file    *)
(* are a sequence of integers.                                             *)
(***************************************************************************)
EXTENDS Integers, Sequences, FiniteSets, TLC

VARIABLES
    mode,         \* "main": the command line program; "lib": direct calls
    pc,           \* position in main, or "lib"
    inputExists,  \* whether input_file exists
    suffix,       \* file_path.suffix, as written
    doc,          \* the content of the input
    fs,           \* the file system below the output root
    argPassword,  \* args.password
    rng,          \* state of the random generator
    password,     \* the local variable password of main
    out,          \* lines printed so far
    pre,          \* the file system when the last call started
    last,         \* the last call of extract_content / encrypt_folder
    calls         \* number of direct calls made

vars == <<mode, pc, inputExists, suffix, doc, fs, argPassword, rng,
          password, out, pre, last, calls>>

----------------------------------------------------------------------------
(* Bounds of the model                                                     *)

MaxPages == 2

MaxRels == 1

MaxSeed == 1

MaxCalls == 2

----------------------------------------------------------------------------
(* Suffixes, as character codes                                            *)

PDF == <<46, 112, 100, 102>>

DOCX == <<46, 100, 111, 99, 120>>

PPTX == <<46, 112, 112, 116, 120>>

TXT == <<46, 116, 120, 116>>

JPG == <<46, 106, 112, 103>>

JPEG == <<46, 106, 112, 101, 103>>

PNG == <<46, 112, 110, 103>>

BMP == <<46, 98, 109, 112>>

TIFF == <<46, 116, 105, 102, 102>>

GIF == <<46, 103, 105, 102>>

UpperPDF == <<46, 80, 68, 70>>

MixedPng == <<46, 80, 110, 103>>

NoSuffix == << >>

\* str.lower() on an ASCII suffix
Lower(s) == [i \in DOMAIN s |-> IF s[i] \in 65..90 THEN s[i] + 32 ELSE s[i]]

\* The dispatch table built in __init__ with one more key, ".gif"
SupportedFormatsWithGif ==
    [e \in {PDF, DOCX, PPTX, TXT, JPG, JPEG, PNG, BMP, TIFF, GIF} |->
        IF e = PDF THEN "_extract_pdf"
        ELSE IF e = DOCX THEN "_extract_docx"
        ELSE IF e = PPTX THEN "_extract_pptx"
        ELSE IF e = TXT THEN "_extract_txt"
        ELSE "_extract_image"]

\* self.supported_formats
SupportedFormats ==
    [e \in {PDF, DOCX, PPTX, TXT, JPG, JPEG, PNG, BMP, TIFF} |->
        IF e = PDF THEN "_extract_pdf"
        ELSE IF e = DOCX THEN "_extract_docx"
        ELSE IF e = PPTX THEN "_extract_pptx"
        ELSE IF e = TXT THEN "_extract_txt"
        ELSE "_extract_image"]

----------------------------------------------------------------------------
(* The file system below the output root                                   *)

NoArchive == [exists |-> FALSE, entries |-> {}, protected |-> FALSE, key |-> << >>]

Path(d, n, s, i, e) == [dir |-> d, name |-> n, slide |-> s, idx |-> i, ext |-> e]

File(p, b) == [path |-> p, data |-> b]

TextPath == Path("text", "extracted_text", 0, 0, TXT)

\* Writing files: a file written to an existing path replaces it
WriteAll(files, new) ==
    {f \in files : \A n \in new : n.path # f.path} \cup new

\* output_folder.mkdir(parents=True, exist_ok=True) and the two
\* sub-folder mkdir(exist_ok=True) calls, clearing what was in the folder
MkdirsFresh(f) ==
    [f EXCEPT !.root = TRUE, !.folder = TRUE, !.text = TRUE, !.images = TRUE,
              !.files = {}]

\* output_folder.mkdir(parents=True, exist_ok=True) and the two
\* sub-folder mkdir(exist_ok=True) calls
Mkdirs(f) ==
    [f EXCEPT !.root = TRUE, !.folder = TRUE, !.text = TRUE, !.images = TRUE]

\* a removal that does nothing
RmtreeNothing(f) == f

\* shutil.rmtree(output_folder)
Rmtree(f) ==
    [f EXCEPT !.folder = FALSE, !.text = FALSE, !.images = FALSE, !.files = {}]

----------------------------------------------------------------------------
(* Input documents.  What the parsing libraries report about the input is  *)
(* data of the document: pages[i] says whether page / paragraph / slide i  *)
(* has non-blank text, imgs[i] whether relationship i targets an image     *)
(* (docx) or slide i holds a picture shape (pptx), bytes are the raw bytes *)
(* of the input, fails whether the handler raises ("open": when opening or *)
(* parsing the input, before anything is written; "late": after the text   *)
(* file has been written), renderFail where page rendering fails (0:       *)
(* convert_from_path raises, k in 1..n: the save of page k raises, n+1:    *)
(* nothing fails), partial whether the failed save leaves a truncated      *)
(* file, ocr the outcome of pytesseract.                                   *)

Doc(p, im, b, o, r, pt, oc) ==
    [pages |-> p, imgs |-> im, bytes |-> b, fails |-> o,
     renderFail |-> r, partial |-> pt, ocr |-> oc]

NullDoc == Doc(<< >>, << >>, << >>, "no", 1, FALSE, "blank")

BoolSeqs(n) == UNION {[1..k -> BOOLEAN] : k \in 0..n}

SampleBytes == {<< >>, <<72, 105>>, <<72, 200, 105>>}

PdfDocs ==
    {d \in UNION {{Doc(p, << >>, << >>, o, r, pt, "blank") :
                        o \in {"no", "open"}, r \in 0..(Len(p) + 1),
                        pt \in BOOLEAN} :
                   p \in BoolSeqs(MaxPages)} :
        d.partial => (d.fails = "no" /\ d.renderFail \in 1..Len(d.pages))}

DocxDocs ==
    {Doc(p, im, << >>, o, 1, FALSE, "blank") :
        p \in BoolSeqs(MaxPages), im \in BoolSeqs(MaxRels),
        o \in {"no", "open", "late"}}

PptxDocs ==
    UNION {{Doc(p, im, << >>, o, 1, FALSE, "blank") :
                im \in [1..Len(p) -> BOOLEAN], o \in {"no", "open", "late"}} :
           p \in BoolSeqs(MaxPages)}

TxtDocs ==
    {Doc(<< >>, << >>, b, o, 1, FALSE, "blank") : b \in SampleBytes,
        o \in {"no", "open", "late"}}

ImageDocs ==
    {Doc(<< >>, << >>, <<137, 80>>, o, 1, FALSE, oc) :
        o \in {"no", "open"}, oc \in {"text", "blank", "fail"}}

DocsFor(handler) ==
    IF handler = "_extract_pdf" THEN PdfDocs
    ELSE IF handler = "_extract_docx" THEN DocxDocs
    ELSE IF handler = "_extract_pptx" THEN PptxDocs
    ELSE IF handler = "_extract_txt" THEN TxtDocs
    ELSE ImageDocs

Suffixes ==
    {PDF, DOCX, PPTX, TXT, JPG, JPEG, PNG, BMP, TIFF, GIF, UpperPDF, MixedPng,
     NoSuffix}

----------------------------------------------------------------------------
(* The format handlers.  Each yields the files it writes below the output  *)
(* folder, whether it raises, and the warnings it prints.                  *)

Outcome(f, r, w) == [files |-> f, raises |-> r, warn |-> w]

\* indices of the non-blank items, in order
NonBlank(p) ==
    LET RECURSIVE Pick(_)
        Pick(i) == IF i > Len(p) THEN << >>
                   ELSE IF p[i] THEN <<i>> \o Pick(i + 1) ELSE Pick(i + 1)
    IN Pick(1)

\* text_content of _extract_pdf: one "--- Page N ---" block per page whose
\* text is not blank
PdfText(d) == NonBlank(d.pages)

PagePath(i) == Path("images", "page", 0, i, PNG)

\* the image loop with the try inside the loop: a failed page is skipped
PdfImagesContinue(d) ==
    LET n == Len(d.pages)
        r == d.renderFail
    IN  IF r = 0 THEN Outcome({}, FALSE, <<"Warning: Could not extract images from PDF">>)
        ELSE Outcome({File(PagePath(i), <<i>>) : i \in (1..n) \ {r}}
                        \cup (IF r \in 1..n /\ d.partial
                              THEN {File(PagePath(r), << >>)} ELSE {}),
                     FALSE,
                     IF r \in 1..n
                     THEN <<"Warning: Could not extract images from PDF">>
                     ELSE << >>)

\* the image part of _extract_pdf: one try around convert_from_path and the
\* whole loop over the rendered pages
PdfImages(d) ==
    LET n == Len(d.pages)
        r == d.renderFail
    IN  IF r = 0 THEN Outcome({}, FALSE, <<"Warning: Could not extract images from PDF">>)
        ELSE Outcome({File(PagePath(i), <<i>>) : i \in 1..(IF r <= n THEN r - 1 ELSE n)}
                        \cup (IF r \in 1..n /\ d.partial
                              THEN {File(PagePath(r), << >>)} ELSE {}),
                     FALSE,
                     IF r \in 1..n
                     THEN <<"Warning: Could not extract images from PDF">>
                     ELSE << >>)

ExtractPdf(d) ==
    IF d.fails = "open" THEN Outcome({}, TRUE, << >>)
    ELSE LET txt == IF PdfText(d) # << >> THEN {File(TextPath, PdfText(d))} ELSE {}
             img == PdfImages(d)
         IN  Outcome(txt \cup img.files, img.raises, img.warn)

\* number of image items among the first k
ImageCount(im, k) == Cardinality({j \in 1..k : im[j]})

ExtractDocx(d) ==
    IF d.fails = "open" THEN Outcome({}, TRUE, << >>)
    ELSE LET txt == IF NonBlank(d.pages) # << >>
                    THEN {File(TextPath, NonBlank(d.pages))} ELSE {}
             img == {File(Path("images", "image", 0, ImageCount(d.imgs, j), PNG), <<j>>) :
                        j \in {k \in 1..Len(d.imgs) : d.imgs[k]}}
         IN  IF d.fails = "late" THEN Outcome(txt, TRUE, << >>)
             ELSE Outcome(txt \cup img, FALSE, << >>)

\* text_content of _extract_pptx: per slide a header (the slide number), the
\* text of its shapes (100 + the slide number) and a blank line (0)
SlideText(p) ==
    LET RECURSIVE Build(_)
        Build(i) == IF i > Len(p) THEN << >>
                    ELSE <<i>> \o (IF p[i] THEN <<100 + i>> ELSE << >>) \o <<0>>
                         \o Build(i + 1)
    IN Build(1)

ExtractPptx(d) ==
    IF d.fails = "open" THEN Outcome({}, TRUE, << >>)
    ELSE LET txt == IF SlideText(d.pages) # << >>
                    THEN {File(TextPath, SlideText(d.pages))} ELSE {}
             img == {File(Path("images", "slide_image", j, ImageCount(d.imgs, j), PNG), <<j>>) :
                        j \in {k \in 1..Len(d.imgs) : d.imgs[k]}}
         IN  IF d.fails = "late" THEN Outcome(txt, TRUE, << >>)
             ELSE Outcome(txt \cup img, FALSE, << >>)

\* open(..., encoding='utf-8', errors='ignore').read(): bytes that do not
\* decode are dropped
Decode(b) == SelectSeq(b, LAMBDA x : x < 128)

ExtractTxt(d) ==
    IF d.fails = "open" THEN Outcome({}, TRUE, << >>)
    ELSE IF d.fails = "late" THEN Outcome({File(TextPath, << >>)}, TRUE, << >>)
    ELSE Outcome({File(TextPath, Decode(d.bytes))}, FALSE, << >>)

\* sfx is the suffix as written: file_path.name keeps its case
ExtractImage(d, sfx) ==
    IF d.fails = "open" THEN Outcome({}, TRUE, << >>)
    ELSE LET copy == {File(Path("images", "input", 0, 0, sfx), d.bytes)}
         IN  IF d.ocr = "text"
             THEN Outcome(copy \cup {File(TextPath, <<79, 67, 82>>)}, FALSE, << >>)
             ELSE IF d.ocr = "fail"
             THEN Outcome(copy, FALSE, <<"Warning: OCR failed">>)
             ELSE Outcome(copy, FALSE, << >>)

\* self.supported_formats[file_ext](file_path, text_folder, images_folder)
Handler(name, d, sfx) ==
    IF name = "_extract_pdf" THEN ExtractPdf(d)
    ELSE IF name = "_extract_docx" THEN ExtractDocx(d)
    ELSE IF name = "_extract_pptx" THEN ExtractPptx(d)
    ELSE IF name = "_extract_txt" THEN ExtractTxt(d)
    ELSE ExtractImage(d, sfx)

----------------------------------------------------------------------------
(* extract_content                                                         *)

NoError == [kind |-> "none", ext |-> << >>]

Error(k, e) == [kind |-> k, ext |-> e]

\* the except clause of extract_content without the rmtree
OnHandlerErrorKeep(f, ext) == [fs |-> f, err |-> Error("Exception", ext)]

\* the except clause of extract_content: remove the output folder, raise
\* Exception("Error extracting <ext> file: ...")
OnHandlerError(f, ext) == [fs |-> Rmtree(f), err |-> Error("Exception", ext)]

ExtractContent(f, exists, sfx, d) ==
    IF ~exists THEN [fs |-> f, err |-> Error("FileNotFoundError", << >>), warn |-> << >>]
    ELSE IF Lower(sfx) \notin DOMAIN SupportedFormats
    THEN [fs |-> f, err |-> Error("ValueError", Lower(sfx)), warn |-> << >>]
    ELSE LET made == Mkdirs(f)
             h == Handler(SupportedFormats[Lower(sfx)], d, sfx)
             written == [made EXCEPT !.files = WriteAll(made.files, h.files)]
             failed == OnHandlerError(written, Lower(sfx))
         IN  IF h.raises
             THEN [fs |-> failed.fs, err |-> failed.err, warn |-> h.warn]
             ELSE [fs |-> written, err |-> NoError, warn |-> h.warn]

----------------------------------------------------------------------------
(* generate_password                                                       *)

Range(a, b) == [i \in 1..(b - a + 1) |-> a + i - 1]

\* string.ascii_letters + string.digits + string.punctuation
Characters ==
    Range(97, 122) \o Range(65, 90) \o Range(48, 57)
    \o Range(33, 47) \o Range(58, 64) \o Range(91, 96) \o Range(123, 126)

\* the generator behind random.choice: a linear congruential stand-in
NextRandom(r) == (r * 75 + 74) % 65537

\* random.choice(characters) in generator state r
Choice(r) == Characters[(r % Len(Characters)) + 1]

DefaultLength == 16

GeneratePassword(r, length) ==
    LET RECURSIVE Gen(_, _)
        Gen(state, k) == IF k = 0 THEN << >>
                         ELSE <<Choice(state)>> \o Gen(NextRandom(state), k - 1)
    IN Gen(r, length)

\* args.password or extractor.generate_password(): None and "" are falsy
ChoosePassword(arg, r) ==
    IF arg.given /\ arg.value # << >> THEN arg.value
    ELSE GeneratePassword(r, DefaultLength)

----------------------------------------------------------------------------
(* encrypt_folder                                                          *)

Archive(e) == [exists |-> TRUE, entries |-> e, protected |-> FALSE, key |-> << >>]

\* os.walk(folder_path) with arcname = relpath(file_path, folder_path)
ZipWalk(f) == IF f.folder THEN f.files ELSE {}

\* compression methods zipfile accepts (_check_compression)
SupportedCompression == {"ZIP_STORED", "ZIP_DEFLATED", "ZIP_BZIP2", "ZIP_LZMA"}

\* the third positional argument of writestr on line 68 is compress_type;
\* the code passes a ZipInfo object
CompressTypeGiven == "ZipInfo"

\* the loop over zip_read.infolist(): the first writestr raises
\* NotImplementedError when the compress_type is not a supported method
Rewrite(entries) ==
    IF entries # {} /\ CompressTypeGiven \notin SupportedCompression
    THEN [entries |-> {}, raises |-> TRUE]
    ELSE [entries |-> entries, raises |-> FALSE]

\* os.rename that leaves the temporary archive behind
RenameTempCopy(f) == [f EXCEPT !.zip = f.temp]

\* os.rename(temp_zip, zip_path)
RenameTemp(f) == [f EXCEPT !.zip = f.temp, !.temp = NoArchive]

\* where the environment makes a file operation of encrypt_folder fail
FailPoints == {"none", "zip", "temp", "remove", "rename"}

\* pw is accepted and never used
EncryptFolder(f, pw, fail) ==
    IF ~f.root \/ fail = "zip" THEN [fs |-> f, err |-> Error("OSError", << >>)]
    ELSE LET z1 == [f EXCEPT !.zip = Archive(ZipWalk(f))]
         IN  IF fail = "temp" THEN [fs |-> z1, err |-> Error("OSError", << >>)]
             ELSE LET rw == Rewrite(z1.zip.entries)
                      z2 == [z1 EXCEPT !.temp = Archive(rw.entries)]
                      z3 == [z2 EXCEPT !.zip = NoArchive]
                  IN  IF rw.raises
                      THEN [fs |-> z2, err |-> Error("NotImplementedError", << >>)]
                      ELSE IF fail = "remove"
                      THEN [fs |-> z2, err |-> Error("OSError", << >>)]
                      ELSE IF fail = "rename"
                      THEN [fs |-> z3, err |-> Error("OSError", << >>)]
                      ELSE [fs |-> RenameTemp(z3), err |-> NoError]

----------------------------------------------------------------------------
(* main                                                                    *)

Line(l, a) == [line |-> l, arg |-> a]

Warnings(w) == [i \in DOMAIN w |-> Line(w[i], << >>)]

\* an except clause that also removes the output folder
ExceptHandlerCleanup(f, o, e) ==
    [fs |-> Rmtree(f), out |-> Append(o, Line("Error", e.ext)), pc |-> "exit1"]

\* except Exception as e: print(f"Error: {e}"); sys.exit(1)
ExceptHandler(f, o, e) ==
    [fs |-> f, out |-> Append(o, Line("Error", e.ext)), pc |-> "exit1"]

NotGiven == [given |-> FALSE, value |-> << >>]

Given(v) == [given |-> TRUE, value |-> v]

SamplePasswords == {<< >>, <<112, 119>>}

NoCall == [op |-> "none", err |-> NoError, pw |-> << >>]

EmptyFs ==
    [root |-> FALSE, folder |-> FALSE, text |-> FALSE, images |-> FALSE,
     files |-> {}, zip |-> NoArchive, temp |-> NoArchive]

OldNote == File(Path("", "notes", 0, 0, TXT), <<111, 108, 100>>)

OldText == File(TextPath, <<111, 108, 100>>)

\* what may lie below the output root before the program runs
InitialFs ==
    { EmptyFs,
      [EmptyFs EXCEPT !.root = TRUE],
      [EmptyFs EXCEPT !.root = TRUE, !.folder = TRUE, !.files = {OldNote}],
      [EmptyFs EXCEPT !.root = TRUE, !.folder = TRUE, !.text = TRUE,
                      !.files = {OldNote, OldText}],
      [EmptyFs EXCEPT !.root = TRUE, !.zip = Archive({OldNote}),
                      !.temp = Archive({OldText})] }

Jobs ==
    {[exists |-> FALSE, suffix |-> s, doc |-> NullDoc] : s \in Suffixes}
    \cup {[exists |-> TRUE, suffix |-> s, doc |-> NullDoc] :
            s \in {t \in Suffixes : Lower(t) \notin DOMAIN SupportedFormats}}
    \cup UNION {{[exists |-> TRUE, suffix |-> s, doc |-> d] :
                    d \in DocsFor(SupportedFormats[Lower(s)])} :
                s \in {t \in Suffixes : Lower(t) \in DOMAIN SupportedFormats}}

Init ==
    /\ mode \in {"main", "lib"}
    /\ pc = IF mode = "main" THEN "start" ELSE "lib"
    /\ \E j \in Jobs :
        /\ inputExists = j.exists
        /\ suffix = j.suffix
        /\ doc = j.doc
    /\ fs \in InitialFs
    /\ argPassword \in IF mode = "main"
                       THEN {NotGiven} \cup {Given(v) : v \in SamplePasswords}
                       ELSE {NotGiven}
    /\ rng \in IF mode = "main" THEN 0..MaxSeed ELSE {0}
    /\ password = << >>
    /\ out = << >>
    /\ pre = fs
    /\ last = NoCall
    /\ calls = 0

\* main, lines 227-230: extract_content(args.input_file, args.output)
MainExtract ==
    /\ pc = "start"
    /\ LET r == ExtractContent(fs, inputExists, suffix, doc)
           printed == <<Line("Processing file", << >>)>> \o Warnings(r.warn)
           h == ExceptHandler(r.fs, printed, r.err)
       IN  /\ pre' = fs
           /\ last' = [op |-> "extract", err |-> r.err, pw |-> << >>]
           /\ IF r.err = NoError
              THEN fs' = r.fs /\ out' = printed /\ pc' = "extracted"
              ELSE fs' = h.fs /\ out' = h.out /\ pc' = h.pc
    /\ UNCHANGED <<mode, inputExists, suffix, doc, argPassword, rng, password, calls>>

\* main, line 233
MainPassword ==
    /\ pc = "extracted"
    /\ password' = ChoosePassword(argPassword, rng)
    /\ pc' = "chosen"
    /\ UNCHANGED <<mode, inputExists, suffix, doc, fs, argPassword, rng, out,
                   pre, last, calls>>

\* main, line 236: encrypt_folder(output_folder, password)
MainEncrypt ==
    /\ pc = "chosen"
    /\ \E fail \in FailPoints :
        LET r == EncryptFolder(fs, password, fail)
            h == ExceptHandler(r.fs, out, r.err)
        IN  /\ pre' = fs
            /\ last' = [op |-> "encrypt", err |-> r.err, pw |-> password]
            /\ IF r.err = NoError
               THEN fs' = r.fs /\ out' = out /\ pc' = "encrypted"
               ELSE fs' = h.fs /\ out' = h.out /\ pc' = h.pc
    /\ UNCHANGED <<mode, inputExists, suffix, doc, argPassword, rng, password, calls>>

\* main, line 239: shutil.rmtree(output_folder)
MainCleanup ==
    /\ pc = "encrypted"
    /\ fs' = Rmtree(fs)
    /\ pc' = "cleaned"
    /\ UNCHANGED <<mode, inputExists, suffix, doc, argPassword, rng, password,
                   out, pre, last, calls>>

\* main, lines 241-244
MainReport ==
    /\ pc = "cleaned"
    /\ out' = out \o <<Line("Successfully processed", << >>),
                       Line("Encrypted output", << >>),
                       Line("Password", password),
                       Line("Please save this password", << >>)>>
    /\ pc' = "exit0"
    /\ UNCHANGED <<mode, inputExists, suffix, doc, fs, argPassword, rng,
                   password, pre, last, calls>>

\* a caller of the class invokes extract_content directly
CallExtract ==
    /\ pc = "lib"
    /\ calls < MaxCalls
    /\ LET r == ExtractContent(fs, inputExists, suffix, doc)
       IN  /\ pre' = fs
           /\ fs' = r.fs
           /\ last' = [op |-> "extract", err |-> r.err, pw |-> << >>]
           /\ out' = out \o Warnings(r.warn)
    /\ calls' = calls + 1
    /\ UNCHANGED <<mode, pc, inputExists, suffix, doc, argPassword, rng, password>>

\* a caller of the class invokes encrypt_folder directly on the output folder
CallEncrypt ==
    /\ pc = "lib"
    /\ calls < MaxCalls
    /\ \E pw \in SamplePasswords, fail \in FailPoints :
        LET r == EncryptFolder(fs, pw, fail)
        IN  /\ pre' = fs
            /\ fs' = r.fs
            /\ last' = [op |-> "encrypt", err |-> r.err, pw |-> pw]
    /\ calls' = calls + 1
    /\ UNCHANGED <<mode, pc, inputExists, suffix, doc, argPassword, rng,
                   password, out>>

Next ==
    \/ MainExtract
    \/ MainPassword
    \/ MainEncrypt
    \/ MainCleanup
    \/ MainReport
    \/ CallExtract
    \/ CallEncrypt

Spec == Init /\ [][Next]_vars

----------------------------------------------------------------------------
(* Properties                                                              *)

\* the formats the specification lists
ClaimedFormats == {PDF, DOCX, PPTX, TXT, JPG, JPEG, PNG, BMP, TIFF}

\* fs is the file system as the last call left it
JustReturned == pc \in {"lib", "extracted", "encrypted", "exit1"}

\* the input reaches a format handler
Dispatched == inputExists /\ Lower(suffix) \in DOMAIN SupportedFormats

\* what the dispatched handler does on the input
Ran == Handler(SupportedFormats[Lower(suffix)], doc, suffix)

HasLine(l) == \E i \in DOMAIN out : out[i].line = l

PdfWarning == "Warning: Could not extract images from PDF"

\* C1: whenever the format handler invoked by extract_content raises, the
\* call fails with an error qualified with the (lowercase) file extension
\* and the output folder, with text/, images/ and every file in it, is gone.
C1_HandlerErrorRemovesFolder ==
    (last.op = "extract" /\ Dispatched /\ Ran.raises) =>
        /\ last.err = Error("Exception", Lower(suffix))
        /\ ~fs.folder /\ ~fs.text /\ ~fs.images /\ fs.files = {}

\* a handler has raised after it had written a file into a new folder
C1_Witness ==
    /\ last.op = "extract" /\ Dispatched /\ Ran.raises
    /\ Ran.files # {} /\ ~pre.folder

\* C2: extract_content validates before it touches the file system: a
\* missing input gives a not-found error, an existing input whose lowercase
\* suffix is not a listed format gives an unsupported-format error, and in
\* both cases the file system is as it was before the call.
C2_ValidateBeforeMkdir ==
    /\ (last.op = "extract" /\ ~inputExists) =>
            (last.err.kind = "FileNotFoundError" /\ fs = pre)
    /\ (last.op = "extract" /\ inputExists /\ Lower(suffix) \notin ClaimedFormats) =>
            (last.err.kind = "ValueError" /\ fs = pre)

\* an unsupported input was rejected while not even the output root existed
C2_Witness ==
    /\ last.op = "extract" /\ inputExists /\ last.err.kind = "ValueError"
    /\ ~pre.root /\ ~fs.root

\* a missing input was rejected while not even the output root existed
C2_WitnessMissing ==
    /\ last.op = "extract" /\ ~inputExists /\ last.err.kind = "FileNotFoundError"
    /\ ~fs.root

\* C3 as stated: after a successful encrypt_folder call has returned, the
\* source folder no longer exists.
C3_Original ==
    (last.op = "encrypt" /\ last.err = NoError /\ JustReturned) => ~fs.folder

\* C3 amended: encrypt_folder leaves the source folder and its files as
\* they were; in main the folder is removed by main's own rmtree after
\* encrypt_folder has returned, so it is gone once main has cleaned up.
C3_MainDeletesFolder ==
    /\ (last.op = "encrypt" /\ JustReturned) =>
            /\ fs.folder = pre.folder /\ fs.files = pre.files
            /\ fs.text = pre.text /\ fs.images = pre.images
    /\ (pc \in {"cleaned", "exit0"}) =>
            (~fs.folder /\ fs.files = {} /\ fs.zip.exists)

\* a direct call of encrypt_folder succeeded and the folder is still there
C3_Witness ==
    /\ pc = "lib" /\ last.op = "encrypt" /\ last.err = NoError
    /\ fs.folder /\ fs.zip.exists

\* C4 as stated: when no file operation fails, encrypt_folder returns the
\* archive <folder>.zip whose entries are exactly the files of the folder,
\* each at its relative path with the same bytes, and the temporary archive
\* is gone.
C4_Original ==
    (last.op = "encrypt" /\ JustReturned /\ pre.folder /\ last.err.kind # "OSError") =>
        /\ last.err = NoError
        /\ fs.zip.exists /\ fs.zip.entries = pre.files
        /\ ~fs.temp.exists

\* C5 as stated: a password given on the command line is the password
\* used, whatever string it is; otherwise the password has 16 characters,
\* each a letter, a digit or a punctuation character.
C5_Original ==
    (pc = "chosen") =>
        /\ argPassword.given => password = argPassword.value
        /\ ~argPassword.given =>
                /\ Len(password) = 16
                /\ \A i \in DOMAIN password : password[i] \in 33..126

\* C6 as stated: an archive returned by encrypt_folder(folder, password) is
\* protected by that password.
C6_Original ==
    (last.op = "encrypt" /\ last.err = NoError /\ JustReturned) =>
        (fs.zip.exists /\ fs.zip.protected /\ fs.zip.key = last.pw)

\* C7: when encrypt_folder fails in main, the run ends with exit code 1,
\* the output folder still holds every extracted file, and no password has
\* been printed; the folder is gone only where encrypt_folder returned.
C7_FolderKeptOnPackagingFailure ==
    /\ (mode = "main" /\ last.op = "encrypt" /\ last.err # NoError) =>
            /\ pc = "exit1"
            /\ fs.folder /\ fs.text /\ fs.images /\ fs.files = pre.files
            /\ ~HasLine("Password")
    /\ (mode = "main" /\ last.op = "encrypt" /\ ~fs.folder) => last.err = NoError

\* packaging of a folder with extracted files has failed in main
C7_Witness ==
    /\ mode = "main" /\ pc = "exit1" /\ last.op = "encrypt"
    /\ last.err # NoError /\ fs.files # {}

\* C8: after a successful run of main the output folder and everything in
\* it is gone, the archive exists, the temporary archive does not, and the
\* password has been printed exactly once, with the folder already deleted.
C8_SuccessfulRunLeavesOnlyArchive ==
    /\ (pc = "exit0") =>
            /\ ~fs.folder /\ ~fs.text /\ ~fs.images /\ fs.files = {}
            /\ fs.zip.exists /\ ~fs.temp.exists
            /\ Cardinality({i \in DOMAIN out : out[i].line = "Password"}) = 1
            /\ \A i \in DOMAIN out :
                  out[i].line = "Password" => out[i].arg = password
    /\ (mode = "main" /\ HasLine("Password")) => (pc = "exit0" /\ ~fs.folder)

\* main has exited with code 0, over a stale temporary archive
C8_Witness == pc = "exit0" /\ pre.temp.exists

\* C9 as stated: when rendering or saving the image of one page fails,
\* _extract_pdf warns, does not raise, keeps the text file, and the images
\* of all remaining pages are still produced.
C9_Original ==
    (/\ last.op = "extract" /\ pc \in {"lib", "extracted", "exit1"}
     /\ Dispatched /\ SupportedFormats[Lower(suffix)] = "_extract_pdf"
     /\ doc.fails = "no" /\ doc.renderFail \in 1..Len(doc.pages)) =>
        /\ last.err = NoError
        /\ HasLine(PdfWarning)
        /\ (PdfText(doc) # << >>) => File(TextPath, PdfText(doc)) \in fs.files
        /\ \A i \in (doc.renderFail + 1)..Len(doc.pages) :
              File(PagePath(i), <<i>>) \in fs.files

\* C9 amended: when rendering fails, _extract_pdf warns, does not raise and
\* keeps the text file and the images of the pages before the failing one;
\* no image is produced for any page after the failing one.
C9_RenderFailureStopsImages ==
    (/\ last.op = "extract" /\ pc \in {"lib", "extracted", "exit1"}
     /\ Dispatched /\ SupportedFormats[Lower(suffix)] = "_extract_pdf"
     /\ doc.fails = "no" /\ doc.renderFail \in 0..Len(doc.pages)) =>
        /\ last.err = NoError
        /\ HasLine(PdfWarning)
        /\ (PdfText(doc) # << >>) => File(TextPath, PdfText(doc)) \in fs.files
        /\ \A i \in 1..(doc.renderFail - 1) :
              File(PagePath(i), <<i>>) \in fs.files
        /\ \A i \in (doc.renderFail + 1)..Len(doc.pages) :
              \A f \in fs.files : f.path # PagePath(i)

\* the save of the first page of a two-page document with text has failed
C9_Witness ==
    /\ last.op = "extract" /\ pc \in {"lib", "extracted"}
    /\ Dispatched /\ SupportedFormats[Lower(suffix)] = "_extract_pdf"
    /\ doc.fails = "no" /\ doc.renderFail = 1 /\ Len(doc.pages) >= 2
    /\ PdfText(doc) # << >>

\* C10: extract_content reuses an existing output folder without clearing
\* it, and on a handler error removes the whole folder, the files that were
\* there before the call included, leaving the output root in place.
C10_ExistingFolderReusedThenRemoved ==
    /\ (last.op = "extract" /\ last.err = NoError /\ pc \in {"lib", "extracted"}) =>
            \A f \in pre.files :
                \/ f \in fs.files
                \/ \E g \in Ran.files : g.path = f.path /\ g \in fs.files
    /\ (last.op = "extract" /\ last.err.kind = "Exception") =>
            (fs.files = {} /\ ~fs.folder /\ fs.root)

\* a handler error has removed a folder that held files before the call
C10_Witness ==
    /\ last.op = "extract" /\ last.err.kind = "Exception"
    /\ pre.folder /\ pre.files # {} /\ fs.root

\* an existing folder with files was reused by a successful call
C10_WitnessReuse ==
    /\ last.op = "extract" /\ last.err = NoError /\ pc \in {"lib", "extracted"}
    /\ OldNote \in pre.files /\ OldNote \in fs.files

====
